---- MODULE Spec2Model ----
(***************************************************************************)
(* Model of run_test() of the two generated Playwright scenarios           *)
(*   testsprite_tests/TC010_Security_tests_for_unauthorized_access_...py   *)
(*   testsprite_tests/TC014_UI_components_render_correctly_on_...py        *)
(* One invocation of run_test is one behaviour.  The body of the try block *)
(* is a straight-line list of awaited calls; every awaited Playwright call *)
(* either returns or raises, and the choice is the environment's.          *)
(*                                                                         *)
(* TC010 line 55 is written with an unquoted  OR '1'='1'  inside the call; *)
(* the statement is modelled as the page.goto(url, timeout=10000) call it  *)
(* is written as, with the whole text as its url.                          *)
(***************************************************************************)
EXTENDS Integers, Sequences, FiniteSets, TLC

VARIABLES
    script,     \* which file's run_test is running
    phase,      \* "try" | "finally" | "done"
    pc,         \* index of the next statement of the try body
    fin,        \* index of the next statement of the finally block
    pw,         \* local pw       (FALSE = None)
    browser,    \* local browser  (FALSE = None)
    context,    \* local context  (FALSE = None)
    page,       \* local page     (FALSE = unbound)
    frames,     \* length of the list page.frames the for statement iterates
    fi,         \* index of the frame the for body is at (0 = loop not entered)
    exc,        \* the exception in flight, NoExc when none
    trace,      \* history: the awaited calls of the try body and their results
    released,   \* history: the release calls issued by the finally block
    acquired    \* history: the resources the automation library handed out

vars == <<script, phase, pc, fin, pw, browser, context, page, frames, fi,
          exc, trace, released, acquired>>

\* Largest number of frames page.frames holds when the for statement reads it.
MaxFrames == 2

Scripts == {"TC010", "TC014"}

NoExc == [type |-> "None", msg |-> <<>>]

\* playwright.async_api: TimeoutError is a subclass of Error.
IsInstance(type, cls) ==
    \/ type = cls
    \/ type = "TimeoutError" /\ cls = "Error"

\* What an awaited automation call can raise.
AutomationErrors == {"TimeoutError", "Error"}

S(k, line, arg) == [k |-> k, line |-> line, arg |-> arg]

\* Lines 12-46, identical in the two files.
Prologue ==
    << S("start", 12, ""),
       S("launch", 15, "chromium"),
       S("new_context", 26, ""),
       S("set_default_timeout", 27, "5000"),
       S("new_page", 30, ""),
       S("goto", 33, "http://localhost:3000"),
       S("wait_for_load_state", 37, "domcontentloaded"),
       S("for_frames", 42, "domcontentloaded") >>

BodyTC010 ==
    Prologue \o
    << S("goto", 50, "http://localhost:3000/projects"),
       S("sleep", 51, "3"),
       S("goto", 55, "http://localhost:3000/signin?input=' OR '1'='1"),
       S("sleep", 56, "3"),
       S("goto", 60, "http://localhost:3000/api/projects?api_key=REVOKED_API_KEY"),
       S("sleep", 61, "3"),
       S("goto", 65, "http://localhost:3000/signin"),
       S("sleep", 66, "3"),
       S("pages_last", 70, ""),
       S("locator", 72, "xpath=html/body/div[2]/div/button"),
       S("wait_for_timeout", 73, "3000"),
       S("click", 73, "xpath=html/body/div[2]/div/button"),
       S("goto", 77, "http://localhost:3000/api/projects?api_key=123456"),
       S("sleep", 78, "3"),
       S("goto", 81, "http://localhost:3000/api/projects?api_key=abcdef"),
       S("sleep", 82, "3"),
       S("goto", 85, "http://localhost:3000/api/projects?api_key=000000"),
       S("sleep", 86, "3"),
       S("pages_last", 90, ""),
       S("expect", 91, "text=Authentication required"),
       S("expect", 92, "text=Please sign in to continue."),
       S("sleep", 93, "5") >>

BodyTC014 ==
    Prologue \o
    << S("pages_last", 50, ""),
       S("locator", 52, "xpath=html/body/div[2]/div/button"),
       S("wait_for_timeout", 53, "3000"),
       S("click", 53, "xpath=html/body/div[2]/div/button"),
       S("goto", 57, "http://localhost:3000"),
       S("sleep", 58, "3"),
       S("goto", 62, "http://localhost:3000/signin"),
       S("sleep", 63, "3"),
       S("goto", 67, "http://localhost:3000/signin"),
       S("sleep", 68, "3"),
       S("evaluate", 72, "() => window.innerHeight"),
       S("wheel", 72, "0"),
       S("pages_last", 76, ""),
       S("locator", 78, "xpath=html/body/div[2]/div/button"),
       S("wait_for_timeout", 79, "3000"),
       S("click", 79, "xpath=html/body/div[2]/div/button"),
       S("pages_last", 83, ""),
       S("expect_wrapped", 85, "text=UI Components Rendered Successfully"),
       S("sleep", 88, "5") >>

Body(s) == IF s = "TC010" THEN BodyTC010 ELSE BodyTC014

Stmt == Body(script)[pc]

At(k) == phase = "try" /\ pc \in 1..Len(Body(script)) /\ Stmt.k = k

\* The message of the AssertionError raised at TC014 line 87.
TC014Message ==
    <<"Test plan execution failed: UI components did not render correctly or accessibility compliance was not met across devices and browsers.">>

\* The message expect(locator).to_be_visible raises with: it names the
\* expectation and the locator waited for.
ExpectMessage(selector) == <<"Locator expected to be visible", selector>>

\* The message of an automation error: the call that failed.
ErrorMessage(s) == <<s.k, s.arg>>

Entry(res, frame) ==
    [i |-> pc, k |-> Stmt.k, line |-> Stmt.line, arg |-> Stmt.arg,
     res |-> res, frame |-> frame]

\* Control falls to the statement after the current one; after the last
\* statement of the try body it falls into the finally block.
FallThrough ==
    /\ pc' = pc + 1
    /\ phase' = IF pc = Len(Body(script)) THEN "finally" ELSE "try"
    /\ fin' = fin

\* The statement returned: record it and go on.
Returns(res, frame) ==
    /\ trace' = Append(trace, Entry(res, frame))
    /\ exc' = exc
    /\ FallThrough

\* An exception leaves the try body: the finally block runs with it in flight.
Raises(res, type, msg, frame) ==
    /\ trace' = Append(trace, Entry(res, frame))
    /\ exc' = [type |-> type, msg |-> msg]
    /\ phase' = "finally"
    /\ UNCHANGED <<pc, fin>>

Init ==
    /\ script \in Scripts
    /\ phase = "try"
    /\ pc = 1
    /\ fin = 1
    /\ pw = FALSE
    /\ browser = FALSE
    /\ context = FALSE
    /\ page = FALSE
    /\ frames = 0
    /\ fi = 0
    /\ exc = NoExc
    /\ trace = <<>>
    /\ released = <<>>
    /\ acquired = {}

\* pw = await async_api.async_playwright().start()
Start ==
    /\ At("start")
    /\ \/ /\ Returns("ok", 0)
          /\ pw' = TRUE
          /\ acquired' = acquired \cup {"pw"}
       \/ /\ Raises("Error", "Error", ErrorMessage(Stmt), 0)
          /\ UNCHANGED <<pw, acquired>>
    /\ UNCHANGED <<script, browser, context, page, frames, fi, released>>

\* browser = await pw.chromium.launch(headless=True, args=[...])
Launch ==
    /\ At("launch")
    /\ \/ /\ Returns("ok", 0)
          /\ browser' = TRUE
          /\ acquired' = acquired \cup {"browser"}
       \/ /\ \E e \in AutomationErrors : Raises(e, e, ErrorMessage(Stmt), 0)
          /\ UNCHANGED <<browser, acquired>>
    /\ UNCHANGED <<script, pw, context, page, frames, fi, released>>

\* context = await browser.new_context()
NewContext ==
    /\ At("new_context")
    /\ \/ /\ Returns("ok", 0)
          /\ context' = TRUE
          /\ acquired' = acquired \cup {"context"}
       \/ /\ Raises("Error", "Error", ErrorMessage(Stmt), 0)
          /\ UNCHANGED <<context, acquired>>
    /\ UNCHANGED <<script, pw, browser, page, frames, fi, released>>

\* context.set_default_timeout(5000): synchronous, sets a number.
SetDefaultTimeout ==
    /\ At("set_default_timeout")
    /\ Returns("ok", 0)
    /\ UNCHANGED <<script, pw, browser, context, page, frames, fi, released, acquired>>

\* page = await context.new_page()
NewPage ==
    /\ At("new_page")
    /\ \/ /\ Returns("ok", 0)
          /\ page' = TRUE
       \/ /\ \E e \in AutomationErrors : Raises(e, e, ErrorMessage(Stmt), 0)
          /\ page' = page
    /\ UNCHANGED <<script, pw, browser, context, frames, fi, released, acquired>>

\* Mutant of Fatal: every call wrapped in try/except: pass, so a failure is
\* recorded and the next statement runs.
Fatal_swallowed ==
    \/ Returns("ok", 0)
    \/ \E e \in AutomationErrors : Returns(e, 0)

\* Mutant of Fatal: a failed call is attempted a second time before it raises.
Fatal_retry ==
    \/ Returns("ok", 0)
    \/ \E e \in AutomationErrors :
          IF trace # <<>> /\ trace[Len(trace)].i = pc
          THEN Raises(e, e, ErrorMessage(Stmt), 0)
          ELSE /\ trace' = Append(trace, Entry(e, 0))
               /\ UNCHANGED <<exc, phase, pc, fin>>

\* An awaited call outside any try/except: it returns, or what it raises
\* leaves the try body.
Fatal ==
    \/ Returns("ok", 0)
    \/ \E e \in AutomationErrors : Raises(e, e, ErrorMessage(Stmt), 0)

\* await page.goto(url, timeout=10000)
Goto ==
    /\ At("goto")
    /\ Fatal
    /\ UNCHANGED <<script, pw, browser, context, page, frames, fi, released, acquired>>

\* await asyncio.sleep(n): a timer of the event loop, it returns.
Sleep ==
    /\ At("sleep")
    /\ Returns("ok", 0)
    /\ UNCHANGED <<script, pw, browser, context, page, frames, fi, released, acquired>>

\* Mutant of Caught: the clause written  except async_api.TimeoutError:
Caught_timeout_only(type) == IsInstance(type, "TimeoutError")

\* The clause  except async_api.Error:  of lines 38 and 45.
Caught(type) == IsInstance(type, "Error")

\* Lines 36-39: the wait inside try/except async_api.Error: pass.
WaitForLoadState ==
    /\ At("wait_for_load_state")
    /\ \E r \in {"ok"} \cup AutomationErrors :
          IF r = "ok" \/ Caught(r)
          THEN Returns(r, 0)
          ELSE Raises(r, r, ErrorMessage(Stmt), 0)
    /\ UNCHANGED <<script, pw, browser, context, page, frames, fi, released, acquired>>

\* Line 42: the for statement reads page.frames once; the list holds the
\* main frame and the child frames attached at that moment.
ForFrames ==
    /\ At("for_frames")
    /\ fi = 0
    /\ frames' \in 1..MaxFrames
    /\ fi' = 1
    /\ UNCHANGED <<script, phase, pc, fin, pw, browser, context, page, exc,
                   trace, released, acquired>>

\* Mutant of FrameWaitForLoadState: the except clause leaves the loop (break).
FrameWaitForLoadState_break ==
    /\ At("for_frames")
    /\ fi \in 1..frames
    /\ \E r \in {"ok"} \cup AutomationErrors :
          /\ trace' = Append(trace, Entry(r, fi))
          /\ exc' = exc
          /\ IF fi = frames \/ r # "ok"
             THEN FallThrough /\ fi' = fi
             ELSE fi' = fi + 1 /\ UNCHANGED <<phase, pc, fin>>
    /\ UNCHANGED <<script, pw, browser, context, page, frames, released, acquired>>

\* Lines 43-46: one iteration of the loop body, then the next frame or, after
\* the last one, the statement after the loop.
FrameWaitForLoadState ==
    /\ At("for_frames")
    /\ fi \in 1..frames
    /\ \E r \in {"ok"} \cup AutomationErrors :
          IF r = "ok" \/ Caught(r)
          THEN /\ trace' = Append(trace, Entry(r, fi))
               /\ exc' = exc
               /\ IF fi = frames
                  THEN FallThrough /\ fi' = fi
                  ELSE fi' = fi + 1 /\ UNCHANGED <<phase, pc, fin>>
          ELSE Raises(r, r, ErrorMessage(Stmt), fi) /\ fi' = fi
    /\ UNCHANGED <<script, pw, browser, context, page, frames, released, acquired>>

\* frame = context.pages[-1]: the page opened at line 30 is in the list.
PagesLast ==
    /\ At("pages_last")
    /\ Returns("ok", 0)
    /\ UNCHANGED <<script, pw, browser, context, page, frames, fi, released, acquired>>

\* elem = frame.locator(selector).nth(0): builds a locator, touches no page.
Locator ==
    /\ At("locator")
    /\ Returns("ok", 0)
    /\ UNCHANGED <<script, pw, browser, context, page, frames, fi, released, acquired>>

\* await page.wait_for_timeout(3000)
WaitForTimeout ==
    /\ At("wait_for_timeout")
    /\ Fatal
    /\ UNCHANGED <<script, pw, browser, context, page, frames, fi, released, acquired>>

\* await elem.click(timeout=5000)
Click ==
    /\ At("click")
    /\ Fatal
    /\ UNCHANGED <<script, pw, browser, context, page, frames, fi, released, acquired>>

\* await page.evaluate('() => window.innerHeight'), the argument of line 72.
Evaluate ==
    /\ At("evaluate")
    /\ Fatal
    /\ UNCHANGED <<script, pw, browser, context, page, frames, fi, released, acquired>>

\* await page.mouse.wheel(0, <height>)
Wheel ==
    /\ At("wheel")
    /\ Fatal
    /\ UNCHANGED <<script, pw, browser, context, page, frames, fi, released, acquired>>

\* What expect(locator).to_be_visible(timeout=...) does: it returns when the
\* target is visible in time, raises AssertionError when it is not, and an
\* automation Error when the page or the browser is gone.
ExpectResults == {"ok", "AssertionError", "Error"}

\* TC010 lines 91-92: a bare await expect(...).to_be_visible(timeout=30000).
Expect ==
    /\ At("expect")
    /\ \E r \in ExpectResults :
          CASE r = "ok" -> Returns("ok", 0)
            [] r = "AssertionError" ->
                 Raises(r, "AssertionError", ExpectMessage(Stmt.arg), 0)
            [] OTHER -> Raises(r, r, ErrorMessage(Stmt), 0)
    /\ UNCHANGED <<script, pw, browser, context, page, frames, fi, released, acquired>>

\* TC014 lines 84-87: the expect inside try/except AssertionError, which
\* raises a new AssertionError with the script's own message.
ExpectWrapped ==
    /\ At("expect_wrapped")
    /\ \E r \in ExpectResults :
          CASE r = "ok" -> Returns("ok", 0)
            [] r = "AssertionError" ->
                 Raises(r, "AssertionError", TC014Message, 0)
            [] OTHER -> Raises(r, r, ErrorMessage(Stmt), 0)
    /\ UNCHANGED <<script, pw, browser, context, page, frames, fi, released, acquired>>

\* Mutant of FinallyOrder: the browser is closed before its context.
FinallyOrder_swapped == <<"browser", "context", "pw">>

\* The order of the three if-statements of the finally block.
FinallyOrder == <<"context", "browser", "pw">>

InFinally(r) ==
    phase = "finally" /\ fin \in 1..Len(FinallyOrder) /\ FinallyOrder[fin] = r

\* After an if-statement of the finally block: the next one, or run_test ends
\* (returning when no exception is in flight, raising it otherwise).
FinallyNext ==
    /\ fin' = fin + 1
    /\ phase' = IF fin = Len(FinallyOrder) THEN "done" ELSE "finally"

\* if handle: await handle.close()   (pw: await pw.stop())
\* A release call that raises leaves the finally block with its exception,
\* which replaces the one in flight.
Release(r, handle) ==
    IF handle
    THEN \/ /\ released' = Append(released, [r |-> r, res |-> "ok"])
            /\ exc' = exc
            /\ FinallyNext
         \/ /\ released' = Append(released, [r |-> r, res |-> "Error"])
            /\ exc' = [type |-> "Error", msg |-> <<"release", r>>]
            /\ phase' = "done"
            /\ fin' = fin
    ELSE /\ UNCHANGED <<released, exc>>
         /\ FinallyNext

\* Mutant of CloseContext: the finally block without its first if-statement.
CloseContext_missing ==
    /\ InFinally("context")
    /\ Release("context", FALSE)
    /\ UNCHANGED <<script, pc, pw, browser, context, page, frames, fi, trace, acquired>>

\* Mutant of CloseBrowser: browser.close() awaited without the  if browser:  test.
CloseBrowser_unconditional ==
    /\ InFinally("browser")
    /\ Release("browser", TRUE)
    /\ UNCHANGED <<script, pc, pw, browser, context, page, frames, fi, trace, acquired>>

\* if context: await context.close()
CloseContext ==
    /\ InFinally("context")
    /\ Release("context", context)
    /\ UNCHANGED <<script, pc, pw, browser, context, page, frames, fi, trace, acquired>>

\* if browser: await browser.close()
CloseBrowser ==
    /\ InFinally("browser")
    /\ Release("browser", browser)
    /\ UNCHANGED <<script, pc, pw, browser, context, page, frames, fi, trace, acquired>>

\* if pw: await pw.stop()
StopPw ==
    /\ InFinally("pw")
    /\ Release("pw", pw)
    /\ UNCHANGED <<script, pc, pw, browser, context, page, frames, fi, trace, acquired>>

Next ==
    \/ Start
    \/ Launch
    \/ NewContext
    \/ SetDefaultTimeout
    \/ NewPage
    \/ Goto
    \/ WaitForLoadState
    \/ ForFrames
    \/ FrameWaitForLoadState
    \/ Sleep
    \/ PagesLast
    \/ Locator
    \/ WaitForTimeout
    \/ Click
    \/ Evaluate
    \/ Wheel
    \/ Expect
    \/ ExpectWrapped
    \/ CloseContext
    \/ CloseBrowser
    \/ StopPw

Spec == Init /\ [][Next]_vars

\* Every awaited call is bounded by a timeout and the event loop runs the one
\* coroutine until it ends: a step that can be taken is taken.
FairSpec == Spec /\ WF_vars(Next)

(***************************************************************************)
(* Vocabulary of the properties.                                           *)
(***************************************************************************)
Done == phase = "done"

\* The release calls issued on resource r.
ReleaseCalls(r) == {i \in DOMAIN released : released[i].r = r}

\* Statement kinds by the policy the code gives them.
IgnorableKinds == {"wait_for_load_state", "for_frames"}
AssertionKinds == {"expect", "expect_wrapped"}

\* The position in the trace of the call that acquired r (0: never acquired).
Acquires(r) ==
    CASE r = "pw" -> "start" [] r = "browser" -> "launch" [] OTHER -> "new_context"

AcquiredAt(r) ==
    IF \E i \in DOMAIN trace : trace[i].k = Acquires(r) /\ trace[i].res = "ok"
    THEN CHOOSE i \in DOMAIN trace : trace[i].k = Acquires(r) /\ trace[i].res = "ok"
    ELSE 0

\* C1: when the context was acquired, context.close() is called exactly once
\* by the time run_test ends, whatever raised in the try body or nothing did;
\* it is never called twice, and never skipped.
C1_ContextClosedOnce ==
    /\ Cardinality(ReleaseCalls("context")) <= 1
    /\ (Done /\ "context" \in acquired) => Cardinality(ReleaseCalls("context")) = 1
    /\ (phase = "finally" /\ fin > 1 /\ "context" \in acquired)
          => Cardinality(ReleaseCalls("context")) = 1

\* An assertion raised after the context was acquired and run_test has ended.
C1_Witness ==
    /\ Done
    /\ "context" \in acquired
    /\ \E i \in DOMAIN trace : trace[i].k \in AssertionKinds /\ trace[i].res = "AssertionError"
    /\ Cardinality(ReleaseCalls("context")) = 1

\* C2: release calls come in strict reverse order of acquisition: when a
\* release is issued on a resource, every resource acquired after it has had
\* its release issued before, and releases never repeat or run out of order.
C2_ReverseAcquisitionOrder ==
    /\ \A i, j \in DOMAIN released :
          i < j => AcquiredAt(released[i].r) > AcquiredAt(released[j].r)
    /\ \A j \in DOMAIN released : \A r \in acquired :
          AcquiredAt(r) > AcquiredAt(released[j].r)
             => \E i \in 1..(j - 1) : released[i].r = r

\* All three releases were issued while an exception was in flight.
C2_Witness ==
    /\ Done
    /\ exc # NoExc
    /\ Len(released) = 3
    /\ released[1].r = "context" /\ released[2].r = "browser" /\ released[3].r = "pw"

\* C3: when run_test has ended, every resource acquired in the invocation has
\* had its release issued, on every exit path, a raising release included.
C3_NoLeak ==
    Done => \A r \in acquired : ReleaseCalls(r) # {}

\* C10: a release is issued only on a resource whose acquisition completed;
\* no release when start() failed, only pw.stop() when launch failed, only
\* browser.close() and pw.stop() when new_context failed.
C10_ReleaseOnlyAcquired ==
    /\ \A i \in DOMAIN released : released[i].r \in acquired
    /\ (Done /\ "pw" \notin acquired) => released = <<>>
    /\ (Done /\ "pw" \in acquired /\ "browser" \notin acquired)
          => Len(released) = 1 /\ released[1].r = "pw"
    /\ (Done /\ "browser" \in acquired /\ "context" \notin acquired)
          => /\ Len(released) \in 1..2
             /\ released[1].r = "browser"
             /\ Len(released) = 2 => released[2].r = "pw"
             /\ released[1].res = "ok" => Len(released) = 2

\* Launch failed: the controller alone was stopped.
C10_Witness ==
    /\ Done
    /\ acquired = {"pw"}
    /\ Len(released) = 1
    /\ released[1].r = "pw"

\* An ignorable wait is about to run: the main-page wait or a per-frame wait.
AtIgnorable ==
    \/ At("wait_for_load_state")
    \/ At("for_frames") /\ fi \in 1..frames

\* Where control is after an ignorable wait that succeeded.
AfterIgnorableSuccess ==
    IF At("for_frames") /\ fi < frames
    THEN pc' = pc /\ fi' = fi + 1 /\ phase' = "try"
    ELSE pc' = pc + 1 /\ phase' = "try"

\* C4: a timeout or automation error raised by an ignorable wait is caught
\* where it is raised: no exception is in flight afterwards and control is
\* exactly where a successful wait would have left it.
C4_IgnorableContinues ==
    [][ ( /\ AtIgnorable
          /\ Len(trace') = Len(trace) + 1
          /\ trace'[Len(trace')].res \in AutomationErrors )
        => (exc' = NoExc /\ AfterIgnorableSuccess) ]_vars

\* The main wait timed out, a frame wait failed, and the first interaction
\* step after the loop was still executed.
C4_Witness ==
    /\ \E i \in DOMAIN trace :
          trace[i].k = "wait_for_load_state" /\ trace[i].res = "TimeoutError"
    /\ \E i \in DOMAIN trace :
          trace[i].k = "for_frames" /\ trace[i].res = "Error"
    /\ \E i \in DOMAIN trace : trace[i].i = Len(Prologue) + 1

\* C5: a failed non-ignorable step is the last thing the try body does: no
\* later step and no assertion is started, only the finally block follows.
C5_FatalStepAborts ==
    \A i \in DOMAIN trace :
        (trace[i].k \notin IgnorableKinds \cup AssertionKinds /\ trace[i].res # "ok")
           => /\ i = Len(trace)
              /\ phase \in {"finally", "done"}
              /\ exc # NoExc
              /\ pc = trace[i].i

\* A goto after the frame loop timed out and run_test has ended.
C5_Witness ==
    /\ Done
    /\ \E i \in DOMAIN trace :
          /\ trace[i].k = "goto"
          /\ trace[i].i > Len(Prologue)
          /\ trace[i].res = "TimeoutError"
          /\ i = Len(trace)

\* Every non-ignorable step of the script completed and every assertion's
\* target became visible.
AllStepsAndAssertionsPassed ==
    \A n \in DOMAIN Body(script) :
        Body(script)[n].k \notin IgnorableKinds
           => \E i \in DOMAIN trace : trace[i].i = n /\ trace[i].res = "ok"

AssertionFailed ==
    \E i \in DOMAIN trace :
        trace[i].k \in AssertionKinds /\ trace[i].res = "AssertionError"

\* C6: run_test returns normally exactly when every non-ignorable step
\* completed and every assertion's target was visible; a failed assertion
\* always leaves run_test as a raised exception.
C6_SuccessIffAllPassed ==
    Done => /\ (exc = NoExc) <=> AllStepsAndAssertionsPassed
            /\ AssertionFailed => exc # NoExc

\* A step or the acquisition of a resource failed with an automation error.
InfrastructureFailed ==
    \E i \in DOMAIN trace :
        trace[i].k \notin IgnorableKinds /\ trace[i].res \in AutomationErrors

\* A message that names the end-state check that failed.
Descriptive(msg) ==
    \/ msg = TC014Message
    \/ \E n \in DOMAIN Body(script) :
          Body(script)[n].k \in AssertionKinds /\ msg = ExpectMessage(Body(script)[n].arg)

\* C7: the harness can tell the three outcomes apart: run_test returns when
\* nothing failed, raises an AssertionError with a descriptive message when an
\* assertion failed, and raises an automation error when the infrastructure
\* failed; neither kind of failure is reported as the other.
C7_OutcomesDistinguishable ==
    Done => /\ AllStepsAndAssertionsPassed => exc = NoExc
            /\ AssertionFailed =>
                  exc.type = "AssertionError" /\ Descriptive(exc.msg)
            /\ InfrastructureFailed => exc.type \in AutomationErrors
            /\ exc.type = "AssertionError" => AssertionFailed

\* The statements of the script before n that are not assertions.
StepsBefore(n) ==
    {m \in 1..(n - 1) : Body(script)[m].k \notin AssertionKinds}

FrameWaits(k) ==
    {i \in DOMAIN trace : trace[i].k = "for_frames" /\ trace[i].frame = k}

LoopLeft == frames > 0 /\ (pc > Len(Prologue) \/ phase # "try")

\* C9: the loop waits once on each frame of the list it read, in order,
\* whichever of the waits fail, and then the first interaction step runs.
C9_EveryFrameWaitedOnce ==
    /\ \A k \in 1..frames : Cardinality(FrameWaits(k)) <= 1
    /\ \A i \in DOMAIN trace : trace[i].k = "for_frames" => trace[i].frame \in 1..frames
    /\ (At("for_frames") /\ fi >= 1)
          => \A k \in 1..frames : (FrameWaits(k) # {}) <=> k < fi
    /\ LoopLeft => \A k \in 1..frames : Cardinality(FrameWaits(k)) = 1
    /\ \A k1, k2 \in 1..frames : \A i \in FrameWaits(k1) : \A j \in FrameWaits(k2) :
          k1 < k2 => i < j
    /\ (frames > 0 /\ Done) => \E i \in DOMAIN trace : trace[i].i = Len(Prologue) + 1

\* Two frames, the wait on the first failed, the second was still waited on
\* and the step after the loop ran.
C9_Witness ==
    /\ frames >= 2
    /\ \E i \in FrameWaits(1) : trace[i].res \in AutomationErrors
    /\ FrameWaits(2) # {}
    /\ \E i \in DOMAIN trace : trace[i].i = Len(Prologue) + 1
====
